---- MODULE Spec2Model ----
(***************************************************************************)
(* A model of the AES-GCM library in src/aes.c and src/aes.h: the key      *)
(* schedule, the forward block cipher, the GF(2^128) multiply, GHASH, the  *)
(* counter-mode buffer XOR and the two one-shot operations AES_GCM_encrypt *)
(* and AES_GCM_decrypt, modelled at the level of bytes.  The portable C    *)
(* path is modelled (the build defines neither __AES__ nor __PCLMULQDQ__). *)
(* Byte arrays are functions from 0-based offsets to 0..255, as in C.      *)
(***************************************************************************)
EXTENDS Integers, Sequences, FiniteSets, TLC

(***************************************************************************)
(* Build configuration selected by the preprocessor.                       *)
(***************************************************************************)
AES_BLOCKLEN == 16
AES_KEYLEN == 64
Nr == 22
AES_keyExpSize == 368
Nb == 4
Nk == 8
AES_GCM_TAG_LEN == 16
AES_GCM_IV_LEN == 12
GCM_POLYNOMIAL == 225

(***************************************************************************)
(* uint8_t arithmetic: ^, |, <<, >> on bytes.                              *)
(***************************************************************************)
(* A byte array is a value, not a closure: Bytes(f) is f with every        *)
(* element evaluated.                                                      *)
Bytes(f) == f @@ << >>

(* Strict(v, e) is e; it makes the evaluator compute v first, so that a    *)
(* loop of the code is evaluated iteration by iteration.                   *)
Strict(v, e) == IF v = v THEN e ELSE e

Bit(v, n) == (v \div (2^n)) % 2

XorNib ==
  Bytes([a \in 0..15 |-> Bytes([b \in 0..15 |->
     ((Bit(a,0) + Bit(b,0)) % 2)
     + 2 * ((Bit(a,1) + Bit(b,1)) % 2)
     + 4 * ((Bit(a,2) + Bit(b,2)) % 2)
     + 8 * ((Bit(a,3) + Bit(b,3)) % 2)])])

XOR(a, b) == XorNib[a \div 16][b \div 16] * 16 + XorNib[a % 16][b % 16]

OrNib ==
  Bytes([a \in 0..15 |-> Bytes([b \in 0..15 |->
     (IF Bit(a,0) + Bit(b,0) > 0 THEN 1 ELSE 0)
     + (IF Bit(a,1) + Bit(b,1) > 0 THEN 2 ELSE 0)
     + (IF Bit(a,2) + Bit(b,2) > 0 THEN 4 ELSE 0)
     + (IF Bit(a,3) + Bit(b,3) > 0 THEN 8 ELSE 0)])])

OR(a, b) == OrNib[a \div 16][b \div 16] * 16 + OrNib[a % 16][b % 16]

Blk == 0..15

ZeroBlock == Bytes([k \in Blk |-> 0])

XorBlock(a, b) == Bytes([k \in Blk |-> XOR(a[k], b[k])])

(***************************************************************************)
(* Lookup tables.                                                          *)
(***************************************************************************)
sbox == <<
   99, 124, 119, 123, 242, 107, 111, 197,  48,   1, 103,  43, 254, 215, 171, 118,
  202, 130, 201, 125, 250,  89,  71, 240, 173, 212, 162, 175, 156, 164, 114, 192,
  183, 253, 147,  38,  54,  63, 247, 204,  52, 165, 229, 241, 113, 216,  49,  21,
    4, 199,  35, 195,  24, 150,   5, 154,   7,  18, 128, 226, 235,  39, 178, 117,
    9, 131,  44,  26,  27, 110,  90, 160,  82,  59, 214, 179,  41, 227,  47, 132,
   83, 209,   0, 237,  32, 252, 177,  91, 106, 203, 190,  57,  74,  76,  88, 207,
  208, 239, 170, 251,  67,  77,  51, 133,  69, 249,   2, 127,  80,  60, 159, 168,
   81, 163,  64, 143, 146, 157,  56, 245, 188, 182, 218,  33,  16, 255, 243, 210,
  205,  12,  19, 236,  95, 151,  68,  23, 196, 167, 126,  61, 100,  93,  25, 115,
   96, 129,  79, 220,  34,  42, 144, 136,  70, 238, 184,  20, 222,  94,  11, 219,
  224,  50,  58,  10,  73,   6,  36,  92, 194, 211, 172,  98, 145, 149, 228, 121,
  231, 200,  55, 109, 141, 213,  78, 169, 108,  86, 244, 234, 101, 122, 174,   8,
  186, 120,  37,  46,  28, 166, 180, 198, 232, 221, 116,  31,  75, 189, 139, 138,
  112,  62, 181, 102,  72,   3, 246,  14,  97,  53,  87, 185, 134, 193,  29, 158,
  225, 248, 152,  17, 105, 217, 142, 148, 155,  30, 135, 233, 206,  85,  40, 223,
  140, 161, 137,  13, 191, 230,  66, 104,  65, 153,  45,  15, 176,  84, 187,  22 >>

getSBoxValue(num) == sbox[num + 1]

Rcon == << 141, 1, 2, 4, 8, 16, 32, 64, 128, 27, 54 >>

(* Rcon[idx] as the C expression reads it: the table has 11 entries; an    *)
(* index past the end reads whatever byte the build placed after the table *)
(* (the parameter oob).                                                    *)
RconRead(idx, oob) == IF idx < Len(Rcon) THEN Rcon[idx + 1] ELSE oob

(***************************************************************************)
(* Key schedule.                                                           *)
(***************************************************************************)
RotSubWord(t) ==
  << getSBoxValue(t[2]), getSBoxValue(t[3]), getSBoxValue(t[4]), getSBoxValue(t[1]) >>

SubWord(t) ==
  << getSBoxValue(t[1]), getSBoxValue(t[2]), getSBoxValue(t[3]), getSBoxValue(t[4]) >>

(* One iteration of the second loop of KeyExpansion: rk holds the bytes of *)
(* words 0..i-1 (as a sequence, byte k of the C array is rk[k+1]).         *)
KeyExpansionWord(rk, i, oob) ==
  LET k == (i - 1) * 4
      t0 == << rk[k + 1], rk[k + 2], rk[k + 3], rk[k + 4] >>
      t1 == IF i % Nk = 0
              THEN LET r == RotSubWord(t0)
                   IN  << XOR(r[1], RconRead(i \div Nk, oob)), r[2], r[3], r[4] >>
              ELSE t0
      tempa == IF Nk > 6 /\ i % Nk = 4 THEN SubWord(t1) ELSE t1
      kk == (i - Nk) * 4
  IN  rk \o << XOR(rk[kk + 1], tempa[1]), XOR(rk[kk + 2], tempa[2]),
               XOR(rk[kk + 3], tempa[3]), XOR(rk[kk + 4], tempa[4]) >>

(* The loop for (i = Nk; i < Nb * (Nr + 1); ++i), evaluated in runs of Nk   *)
(* iterations: KeyExpansionRun does iterations i .. hi-1.                  *)
RECURSIVE KeyExpansionRun(_, _, _, _)
KeyExpansionRun(rk, i, hi, oob) ==
  IF i < hi
    THEN Strict(rk, KeyExpansionRun(KeyExpansionWord(rk, i, oob), i + 1, hi, oob))
    ELSE rk

RECURSIVE KeyExpansionLoop(_, _, _)
KeyExpansionLoop(rk, i, oob) ==
  LET end == Nb * (Nr + 1)
      hi == IF i + Nk < end THEN i + Nk ELSE end
  IN  IF i < end
        THEN Strict(rk, KeyExpansionLoop(KeyExpansionRun(rk, i, hi, oob), hi, oob))
        ELSE rk

(* The indices i/Nk of the reads Rcon[i/Nk] of that loop: one for every i  *)
(* with i % Nk == 0.                                                       *)
RconIndices ==
  { i \div Nk : i \in { j \in Nk..(Nb * (Nr + 1) - 1) : j % Nk = 0 } }

(* KeyExpansion(RoundKey, Key): Key is the caller's key buffer (0-based);  *)
(* the first loop copies its first 4*Nk bytes.                             *)
KeyExpansion(Key, oob) ==
  LET first == [k \in 1..(4 * Nk) |-> Key[k - 1]]
      rk == KeyExpansionLoop(first, Nk, oob)
  IN  Bytes([k \in 0..(AES_keyExpSize - 1) |-> rk[k + 1]])

(***************************************************************************)
(* Block cipher.  state[i][j] of the C code is byte 4i+j of the block.     *)
(***************************************************************************)
AddRoundKey(round, state, RoundKey) ==
  Bytes([p \in Blk |-> XOR(state[p], RoundKey[(round * Nb * 4) + p])])

SubBytes(state) == Bytes([p \in Blk |-> getSBoxValue(state[p])])

ShiftRows(state) ==
  Bytes([p \in Blk |-> LET i == p \div 4
                           j == p % 4
                       IN  state[4 * ((i + j) % 4) + j]])

xtime(v) == XOR((v * 2) % 256, (v \div 128) * 27)

MixColumns(state) ==
  Bytes([p \in Blk |->
     LET i == p \div 4
         j == p % 4
         s0 == state[4 * i]
         s1 == state[4 * i + 1]
         s2 == state[4 * i + 2]
         s3 == state[4 * i + 3]
         Tmp == XOR(XOR(s0, s1), XOR(s2, s3))
         a == state[p]
         b == state[4 * i + ((j + 1) % 4)]
     IN  XOR(a, XOR(xtime(XOR(a, b)), Tmp))])

RECURSIVE CipherRounds(_, _, _)
CipherRounds(state, round, RoundKey) ==
  LET s == ShiftRows(SubBytes(state))
  IN  IF round = Nr
        THEN s
        ELSE Strict(s, CipherRounds(AddRoundKey(round, MixColumns(s), RoundKey),
                                    round + 1, RoundKey))

Cipher(state, RoundKey) ==
  AddRoundKey(Nr, CipherRounds(AddRoundKey(0, state, RoundKey), 1, RoundKey), RoundKey)

(***************************************************************************)
(* Memory.  The automatic 16-byte arrays of AES_GCM_encrypt and            *)
(* AES_GCM_decrypt form a frame: a record from array name to contents.  A  *)
(* pointer to one of them is its name, so that two parameters naming the   *)
(* same array alias, as they do in C.  A caller's buffer of n bytes is a   *)
(* function on 0..n-1.  A pointer argument is NULL, or the contents of the *)
(* buffer it points to (a buffer the call reads), or Addr(name) (a buffer  *)
(* the call writes).                                                       *)
(***************************************************************************)
Arrays == {"H", "J0", "GCM_S", "EK0", "len_block", "current_counter",
           "final_len_block", "calculated_tag"}

NULL == [k \in {-1} |-> 0]

Addr(name) == [k \in {-2} |-> name]

Buffer(n, c) == Bytes([k \in 0..(n - 1) |-> c])

memcpy(dst, src, n) == Bytes([k \in DOMAIN dst |-> IF k < n THEN src[k] ELSE dst[k]])

memset(dst, c, n) == Bytes([k \in DOMAIN dst |-> IF k < n THEN c ELSE dst[k]])

(***************************************************************************)
(* AES_CTR_xcrypt_buffer.  st is the state of the byte loop: the local     *)
(* buffer, the index bi, the caller's counter block and the data buffer.   *)
(***************************************************************************)
RECURSIVE CtrIncrement(_, _)
(* CtrIncrement carrying on through the whole 128-bit block.               *)
CtrIncrement_Full(counter, bi) ==
  IF bi >= 0
    THEN LET c1 == [counter EXCEPT ![bi] = (@ + 1) % 256]
         IN  IF c1[bi] # 0 THEN c1 ELSE CtrIncrement(c1, bi - 1)
    ELSE counter

CtrIncrement(counter, bi) ==
  IF bi >= AES_BLOCKLEN - 4
    THEN LET c1 == [counter EXCEPT ![bi] = (@ + 1) % 256]
         IN  IF c1[bi] # 0 THEN c1 ELSE CtrIncrement(c1, bi - 1)
    ELSE counter

(* CtrByte folding each output byte back into the local keystream buffer.  *)
CtrByte_Feedback(st, RoundKey, i) ==
  LET regen == st.bi = AES_BLOCKLEN
      encrypted == Cipher(st.buffer, RoundKey)
      counter1 == IF regen THEN CtrIncrement(st.counter, AES_BLOCKLEN - 1) ELSE st.counter
      buffer1 == IF regen THEN memcpy(encrypted, counter1, AES_BLOCKLEN) ELSE st.buffer
      bi1 == IF regen THEN 0 ELSE st.bi
      out == XOR(st.buf[i], buffer1[bi1])
  IN  [buffer |-> [buffer1 EXCEPT ![(bi1 + 1) % AES_BLOCKLEN] = XOR(@, out)],
       bi |-> bi1 + 1, counter |-> counter1,
       buf |-> [st.buf EXCEPT ![i] = out]]

CtrByte(st, RoundKey, i) ==
  LET regen == st.bi = AES_BLOCKLEN
      encrypted == Cipher(st.buffer, RoundKey)
      counter1 == IF regen THEN CtrIncrement(st.counter, AES_BLOCKLEN - 1) ELSE st.counter
      buffer1 == IF regen THEN memcpy(encrypted, counter1, AES_BLOCKLEN) ELSE st.buffer
      bi1 == IF regen THEN 0 ELSE st.bi
  IN  [buffer |-> buffer1, bi |-> bi1 + 1, counter |-> counter1,
       buf |-> [st.buf EXCEPT ![i] = XOR(@, buffer1[bi1])]]

RECURSIVE CtrLoop(_, _, _, _)
CtrLoop(st, RoundKey, i, length) ==
  IF i < length
    THEN Strict(st.buf, CtrLoop(CtrByte(st, RoundKey, i), RoundKey, i + 1, length))
    ELSE st

(* The result: the counter block and the buffer as the call leaves them.   *)
AES_CTR_xcrypt_buffer(RoundKey, current_counter_block, buf, length) ==
  LET st0 == [buffer |-> memcpy(ZeroBlock, current_counter_block, AES_BLOCKLEN),
              bi |-> AES_BLOCKLEN, counter |-> current_counter_block, buf |-> buf]
      st == CtrLoop(st0, RoundKey, 0, length)
  IN  [counter |-> st.counter, buf |-> st.buf]

(***************************************************************************)
(* ghash_gmul(x, y, res) on pointers into the frame mem.  st is the state  *)
(* of the double loop: the frame and the local V.                          *)
(***************************************************************************)
(* V[k] >>= 1 clears bit 7, so the following |= 0x80 adds 128.            *)
GmulShift(V) ==
  Bytes([k \in Blk |-> IF k > 0 /\ V[k - 1] % 2 = 1
                         THEN (V[k] \div 2) + 128
                         ELSE V[k] \div 2])

GmulBit(st, x, res, i, j) ==
  LET m1 == IF (st.mem[x][i] \div (2^(7 - j))) % 2 = 1
              THEN [st.mem EXCEPT ![res] = XorBlock(@, st.V)]
              ELSE st.mem
      lsb_set == st.V[15] % 2
      V1 == GmulShift(st.V)
      V2 == IF lsb_set = 1 THEN [V1 EXCEPT ![0] = XOR(@, GCM_POLYNOMIAL)] ELSE V1
  IN  [mem |-> m1, V |-> V2]

RECURSIVE GmulBits(_, _, _, _, _)
GmulBits(st, x, res, i, j) ==
  IF j < 8 THEN GmulBits(GmulBit(st, x, res, i, j), x, res, i, j + 1) ELSE st

RECURSIVE GmulBytes(_, _, _, _)
GmulBytes(st, x, res, i) ==
  IF i < 16 THEN Strict(st.V, GmulBytes(GmulBits(st, x, res, i, 0), x, res, i + 1)) ELSE st

ghash_gmul(mem, x, y, res) ==
  LET m0 == [mem EXCEPT ![res] = memset(@, 0, 16)]
      V0 == memcpy(ZeroBlock, m0[y], 16)
  IN  GmulBytes([mem |-> m0, V |-> V0], x, res, 0).mem

(***************************************************************************)
(* ghash_update(S, H, data, len): S and H are pointers into the frame,     *)
(* data is the contents of the buffer read (never the array S).            *)
(***************************************************************************)
GhashAbsorb(mem, S, H, block) ==
  ghash_gmul([mem EXCEPT ![S] = XorBlock(@, block)], S, H, S)

RECURSIVE GhashFullBlocks(_, _, _, _, _, _)
GhashFullBlocks(mem, S, H, data, len, i) ==
  IF i + AES_BLOCKLEN <= len
    THEN Strict(mem[S],
                GhashFullBlocks(GhashAbsorb(mem, S, H, Bytes([k \in Blk |-> data[i + k]])),
                                S, H, data, len, i + AES_BLOCKLEN))
    ELSE mem

ghash_update(mem, S, H, data, len) ==
  LET i == (len \div AES_BLOCKLEN) * AES_BLOCKLEN
      m1 == GhashFullBlocks(mem, S, H, data, len, 0)
      remaining == len - i
      block == Bytes([k \in Blk |-> IF k < remaining THEN data[i + k] ELSE 0])
  IN  IF i < len THEN GhashAbsorb(m1, S, H, block) ELSE m1

(***************************************************************************)
(* increment_counter_j0, encode_length, constant_time_memcmp.              *)
(***************************************************************************)
RECURSIVE IncrementLoop(_, _)
IncrementLoop(counter, i) ==
  IF i >= AES_BLOCKLEN - 4
    THEN LET c1 == [counter EXCEPT ![i] = (@ + 1) % 256]
         IN  IF c1[i] # 0 THEN c1 ELSE IncrementLoop(c1, i - 1)
    ELSE counter

increment_counter_j0(counter) == IncrementLoop(counter, AES_BLOCKLEN - 1)

(* (uint8_t)(len_bits >> n) for the lengths of the model, all below 2^31.  *)
ShiftByte(len_bits, n) == IF n >= 31 THEN 0 ELSE (len_bits \div (2^n)) % 256

(* The stores of encode_length(len_bits, block): offset (relative to the   *)
(* pointer block) |-> byte stored.                                         *)
encode_length(len_bits) ==
  [k \in 8..15 |-> ShiftByte(len_bits, 8 * (15 - k))]

(* A store through a pointer arr + off into the frame.  An offset past the *)
(* end of the 16-byte array arr lands in whatever the build placed after   *)
(* it: another array of the frame (above[arr]) or nothing the function     *)
(* reads ("none").                                                         *)
Store(mem, above, arr, off, val) ==
  IF off < 16
    THEN [mem EXCEPT ![arr][off] = val]
    ELSE IF above[arr] = "none"
           THEN mem
           ELSE [mem EXCEPT ![above[arr]][off - 16] = val]

RECURSIVE StoreLength(_, _, _, _, _, _)
StoreLength(mem, above, arr, base, stores, k) ==
  IF k <= 15
    THEN StoreLength(Store(mem, above, arr, base + k, stores[k]), above, arr, base, stores, k + 1)
    ELSE mem

(* encode_length(len_bits, arr + base) executed on the frame.              *)
EncodeLengthAt(mem, above, arr, base, len_bits) ==
  StoreLength(mem, above, arr, base, encode_length(len_bits), 8)

RECURSIVE MemcmpLoop(_, _, _, _, _)
MemcmpLoop(a, b, num, i, result) ==
  IF i < num THEN MemcmpLoop(a, b, num, i + 1, OR(result, XOR(a[i], b[i]))) ELSE result

(* constant_time_memcmp with a loop that stops one byte short.             *)
constant_time_memcmp_short(ptr1, ptr2, num) ==
  IF MemcmpLoop(ptr1, ptr2, num - 1, 0, 0) # 0 THEN 1 ELSE 0

constant_time_memcmp(ptr1, ptr2, num) ==
  IF MemcmpLoop(ptr1, ptr2, num, 0, 0) # 0 THEN 1 ELSE 0

(***************************************************************************)
(* The statements of AES_GCM_encrypt, in order, as operations on the       *)
(* frame.  AES_GCM_decrypt repeats the statements of steps 1, 2, 3, 5 and  *)
(* 6 verbatim (lines 881-916), so the same operators model both.           *)
(***************************************************************************)
(* uint8_t H[16] = {0}; uint8_t GCM_S[16] = {0}; the other arrays are      *)
(* declared without a value and are written in full before they are read. *)
NewFrame == [a \in Arrays |-> ZeroBlock]

(* 1. Generate H = E_K(0^128) *)
HashSubkey(mem, RoundKey) == [mem EXCEPT !["H"] = Cipher(@, RoundKey)]

(* 2. Prepare J0, then EK0 = E_K(J0) *)
PrepareJ0(mem, above, iv, iv_len, RoundKey) ==
  LET std1 == [mem EXCEPT !["J0"] = memcpy(@, iv, iv_len)]
      std2 == [std1 EXCEPT !["J0"] =
                 Bytes([k \in Blk |-> IF k >= iv_len /\ k < iv_len + (AES_BLOCKLEN - iv_len - 1)
                                        THEN 0 ELSE @[k]])]
      std3 == [std2 EXCEPT !["J0"][AES_BLOCKLEN - 1] = 1]
      gh1 == [mem EXCEPT !["len_block"] = ZeroBlock]
      gh2 == EncodeLengthAt(gh1, above, "len_block", 8, iv_len * 8)
      gh3 == [gh2 EXCEPT !["GCM_S"] = memset(@, 0, 16)]
      gh4 == ghash_update(gh3, "GCM_S", "H", iv, iv_len)
      gh5 == ghash_update(gh4, "GCM_S", "H", gh4["len_block"], 16)
      gh6 == [gh5 EXCEPT !["J0"] = memcpy(@, gh5["GCM_S"], 16)]
      gh7 == [gh6 EXCEPT !["GCM_S"] = memset(@, 0, 16)]
      m1 == IF iv_len = AES_GCM_IV_LEN THEN std3 ELSE gh7
      m2 == [m1 EXCEPT !["EK0"] = memcpy(@, m1["J0"], AES_BLOCKLEN)]
  IN  [m2 EXCEPT !["EK0"] = Cipher(@, RoundKey)]

(* 3. / 5. Process AAD, ciphertext with GHASH *)
HashData(mem, data, len) == ghash_update(mem, "GCM_S", "H", data, len)

(* current_counter = J0 + 1 *)
StartCounter(mem) ==
  LET m1 == [mem EXCEPT !["current_counter"] = memcpy(@, mem["J0"], AES_BLOCKLEN)]
  IN  [m1 EXCEPT !["current_counter"] = increment_counter_j0(@)]

(* 6. Final GHASH block with lengths *)
FinalLengths(mem, above, aad_len, data_len) ==
  LET m1 == [mem EXCEPT !["final_len_block"] = ZeroBlock]
      m2 == EncodeLengthAt(m1, above, "final_len_block", 0, aad_len * 8)
      m3 == EncodeLengthAt(m2, above, "final_len_block", 8, data_len * 8)
  IN  ghash_update(m3, "GCM_S", "H", m3["final_len_block"], 16)

(* 7. T = GHASH_result ^ E_K(J0) *)
TagOf(mem) == Bytes([i \in 0..(AES_GCM_TAG_LEN - 1) |-> XOR(mem["GCM_S"][i], mem["EK0"][i])])

(* The offsets, relative to the array arr, that encode_length(_, arr+base) *)
(* stores to.                                                              *)
LengthStores(arr, base) == {<<arr, base + k>> : k \in DOMAIN encode_length(0)}

EncInvalid(c) ==
  \/ c.iv_len = 0
  \/ (c.aad = NULL /\ c.aad_len > 0)
  \/ (c.pt = NULL /\ c.pt_len > 0)
  \/ c.ct = NULL
  \/ c.tag = NULL

DecInvalid(c) ==
  \/ c.iv_len = 0
  \/ (c.aad = NULL /\ c.aad_len > 0)
  \/ (c.ct = NULL /\ c.ct_len > 0)
  \/ c.pt = NULL
  \/ c.tag = NULL

(* AES_GCM_encrypt as one function of its arguments c, the round keys and  *)
(* the caller's output buffers: steps 1 to 7 in order.                     *)
AES_GCM_encrypt(c, RoundKey, above, ct0, tag0) ==
  IF EncInvalid(c)
    THEN [ret |-> -1, ct |-> ct0, tag |-> tag0]
    ELSE LET m1 == HashSubkey(NewFrame, RoundKey)
             m2 == PrepareJ0(m1, above, c.iv, c.iv_len, RoundKey)
             m3 == HashData(m2, c.aad, c.aad_len)
             m4 == StartCounter(m3)
             out == AES_CTR_xcrypt_buffer(RoundKey, m4["current_counter"],
                                          memcpy(ct0, c.pt, c.pt_len), c.pt_len)
             m5 == IF c.pt_len > 0 THEN [m4 EXCEPT !["current_counter"] = out.counter] ELSE m4
             ct1 == IF c.pt_len > 0 THEN out.buf ELSE ct0
             m6 == HashData(m5, ct1, c.pt_len)
             m7 == FinalLengths(m6, above, c.aad_len, c.pt_len)
         IN  Strict(m1, Strict(m2, Strict(m3, Strict(m4, Strict(m5, Strict(m6, Strict(m7,
               [ret |-> 0, ct |-> ct1, tag |-> TagOf(m7)])))))))

(* AES_GCM_decrypt as one function of its arguments c, the round keys and  *)
(* the caller's plaintext buffer: steps 1 to 8 in order.                   *)
AES_GCM_decrypt(c, RoundKey, above, pt0) ==
  IF DecInvalid(c)
    THEN [ret |-> -1, pt |-> pt0]
    ELSE LET m1 == HashSubkey(NewFrame, RoundKey)
             m2 == PrepareJ0(m1, above, c.iv, c.iv_len, RoundKey)
             m3 == HashData(m2, c.aad, c.aad_len)
             m4 == HashData(m3, c.ct, c.ct_len)
             m5 == FinalLengths(m4, above, c.aad_len, c.ct_len)
             calculated_tag == TagOf(m5)
             m6 == StartCounter(m5)
         IN  Strict(m1, Strict(m2, Strict(m3, Strict(m4, Strict(m5, Strict(calculated_tag,
               IF constant_time_memcmp(calculated_tag, c.tag, AES_GCM_TAG_LEN) # 0
                 THEN [ret |-> -3, pt |-> memset(pt0, 0, c.ct_len)]
                 ELSE [ret |-> 0,
                       pt |-> IF c.ct_len > 0
                                THEN AES_CTR_xcrypt_buffer(RoundKey, m6["current_counter"],
                                       memcpy(pt0, c.ct, c.ct_len), c.ct_len).buf
                                ELSE pt0]))))))

(* One step of a call of AES_GCM_encrypt or AES_GCM_decrypt by a thread    *)
(* th = [pc, call, frame, out, tag, ret, cmpres]: out is the buffer the    *)
(* call writes its ciphertext (encrypt) or plaintext (decrypt) to.         *)
GcmStep(th, RoundKey, encAbove, decAbove) ==
  LET c == th.call
      m1 == StartCounter(th.frame)
      len == IF c.fn = "encrypt" THEN c.pt_len ELSE c.ct_len
      src == IF c.fn = "encrypt" THEN c.pt ELSE c.ct
      ctr == AES_CTR_xcrypt_buffer(RoundKey, m1["current_counter"],
                                   memcpy(th.out, src, len), len)
      xcrypt(nextpc) ==
        IF len > 0
          THEN [th EXCEPT !.frame = [m1 EXCEPT !["current_counter"] = ctr.counter],
                          !.out = ctr.buf, !.pc = nextpc]
          ELSE [th EXCEPT !.frame = m1, !.pc = nextpc]
  IN  CASE th.pc = "enc_entry" ->
             IF EncInvalid(c) THEN [th EXCEPT !.ret = -1, !.pc = "ret"]
                              ELSE [th EXCEPT !.frame = NewFrame, !.pc = "enc_H"]
        [] th.pc = "enc_H" ->
             [th EXCEPT !.frame = HashSubkey(@, RoundKey), !.pc = "enc_J0"]
        [] th.pc = "enc_J0" ->
             [th EXCEPT !.frame = PrepareJ0(@, encAbove, c.iv, c.iv_len, RoundKey),
                        !.pc = "enc_aad"]
        [] th.pc = "enc_aad" ->
             [th EXCEPT !.frame = HashData(@, c.aad, c.aad_len), !.pc = "enc_ctr"]
        [] th.pc = "enc_ctr" -> xcrypt("enc_ghash_ct")
        [] th.pc = "enc_ghash_ct" ->
             [th EXCEPT !.frame = HashData(@, th.out, c.pt_len), !.pc = "enc_len"]
        [] th.pc = "enc_len" ->
             [th EXCEPT !.frame = FinalLengths(@, encAbove, c.aad_len, c.pt_len),
                        !.pc = "enc_tag"]
        [] th.pc = "enc_tag" ->
             [th EXCEPT !.tag = TagOf(th.frame), !.ret = 0, !.pc = "ret"]
        [] th.pc = "dec_entry" ->
             IF DecInvalid(c) THEN [th EXCEPT !.ret = -1, !.pc = "ret"]
                              ELSE [th EXCEPT !.frame = NewFrame, !.pc = "dec_H"]
        [] th.pc = "dec_H" ->
             [th EXCEPT !.frame = HashSubkey(@, RoundKey), !.pc = "dec_J0"]
        [] th.pc = "dec_J0" ->
             [th EXCEPT !.frame = PrepareJ0(@, decAbove, c.iv, c.iv_len, RoundKey),
                        !.pc = "dec_aad"]
        [] th.pc = "dec_aad" ->
             [th EXCEPT !.frame = HashData(@, c.aad, c.aad_len), !.pc = "dec_ghash_ct"]
        [] th.pc = "dec_ghash_ct" ->
             [th EXCEPT !.frame = HashData(@, c.ct, c.ct_len), !.pc = "dec_len"]
        [] th.pc = "dec_len" ->
             [th EXCEPT !.frame = FinalLengths(@, decAbove, c.aad_len, c.ct_len),
                        !.pc = "dec_tag"]
        [] th.pc = "dec_tag" ->
             [th EXCEPT !.frame = [@ EXCEPT !["calculated_tag"] = TagOf(th.frame)],
                        !.pc = "dec_compare"]
        [] th.pc = "dec_compare" ->
             [th EXCEPT !.cmpres = constant_time_memcmp(th.frame["calculated_tag"], c.tag,
                                                        AES_GCM_TAG_LEN),
                        !.pc = "dec_compared"]
        [] th.pc = "dec_compared" ->
             IF th.cmpres # 0
               THEN [th EXCEPT !.out = memset(@, 0, c.ct_len), !.ret = -3, !.pc = "ret"]
               ELSE [xcrypt("ret") EXCEPT !.ret = 0]

(***************************************************************************)
(* Bounds of the model: the inputs the caller draws from.                  *)
(***************************************************************************)
MaxAadLen == 17
MaxPtLen == 17

(* The length of the AAD and of the data of the calls of two threads.      *)
SharedLen == 1

IvLens == {0, 1, AES_GCM_IV_LEN, 13}
AadLens == {0, MaxAadLen}
PtLens == {0, MaxPtLen}

Pattern(n, seed) == Bytes([k \in 0..(n - 1) |-> (seed + 29 * k) % 256])

Size(b) == Cardinality(DOMAIN b)

Keys == { Buffer(AES_KEYLEN, 0) }

(* Key buffers of other lengths, and the byte found past the end of one.   *)
ShortKeys == { Buffer(15, 0), Buffer(16, 0) }

KeyOobBytes == {0, 255}

(* The byte a read through a null pointer finds where it does not trap.    *)
NullPageBytes == {0, 255}

(* The byte a build may hold right after the table Rcon.                   *)
OobBytes == {0, 141}

(* What a build may place right after len_block and final_len_block in the *)
(* frame of AES_GCM_encrypt, of AES_GCM_decrypt.  The first layout of each *)
(* set is the one gcc 12 -O0 produces on x86-64.                           *)
EncLayouts ==
  { [len_block |-> "final_len_block", final_len_block |-> "current_counter"],
    [len_block |-> "H", final_len_block |-> "EK0"] }

DecLayouts ==
  { [len_block |-> "current_counter", final_len_block |-> "calculated_tag"],
    [len_block |-> "H", final_len_block |-> "EK0"],
    [len_block |-> "none", final_len_block |-> "J0"] }

(* One bit of one byte, flipped.                                           *)
Flip(b, site) == [b EXCEPT ![site[1]] = XOR(@, 2^(site[2]))]

FlipSites(n) == IF n = 0 THEN {} ELSE {<<0, 0>>, <<n - 1, 7>>}

(* What the caller changes between AES_GCM_encrypt and AES_GCM_decrypt: a  *)
(* flipped bit, or a null pointer passed for one argument.                 *)
NullKinds == {"null_iv", "null_aad", "null_ct", "null_pt", "null_tag"}

Tampers(c) ==
  IF c.fn # "encrypt"
    THEN {}
    ELSE IF c.iv = NULL
    THEN {[kind |-> "none", site |-> <<0, 0>>]}
    ELSE {[kind |-> "none", site |-> <<0, 0>>]}
           \cup {[kind |-> k, site |-> <<0, 0>>] :
                   k \in IF c.iv_len = AES_GCM_IV_LEN /\ c.aad_len > 0 /\ c.pt_len > 0
                           THEN NullKinds ELSE {}}
           \cup {[kind |-> "tag", site |-> st] : st \in FlipSites(AES_GCM_TAG_LEN)}
           \cup {[kind |-> "ct", site |-> st] : st \in {<<c.pt_len - 1, 0>>} \cap (Nat \X Nat)}
           \cup {[kind |-> "aad", site |-> st] : st \in {<<c.aad_len - 1, 7>>} \cap (Nat \X Nat)}
           \cup {[kind |-> "iv", site |-> st] : st \in {<<0, 0>>}}

(***************************************************************************)
(* State.                                                                  *)
(*   ctx      struct AES_ctx                                               *)
(*   userkey  the key buffer the caller gave to AES_init_ctx               *)
(*   build    what the build fixes where the C code leaves it open         *)
(*   pc       position of the caller / of the call in progress             *)
(*   call     the arguments of the call in progress (or of the last call)  *)
(*   frame    the automatic arrays of the call                             *)
(*   ctbuf, tagbuf, ptbuf   the caller's output buffers                    *)
(*   ret      the value the call returned, "none" before it returns        *)
(*   cmpres   the value constant_time_memcmp returned in this call (-1     *)
(*            while it has not returned)                                   *)
(*   ptops    the operations that have stored into ptbuf in this call      *)
(*   stores   the <<array, offset>> pairs encode_length stored to          *)
(*   session  the encrypt call whose output the decrypt call is given,     *)
(*            what the caller changed in it, and what ptbuf held           *)
(*   other    a second thread calling AES_GCM_encrypt or AES_GCM_decrypt   *)
(*            with the same ctx: its position, arguments, automatic        *)
(*            arrays, output buffers out and tag, and return value         *)
(*   local    the arguments and locals of a static function run on its own *)
(*   rconidx  the indices at which KeyExpansion has read the table Rcon     *)
(***************************************************************************)
VARIABLES ctx, build, userkey, pc, call, frame, ctbuf, tagbuf, ptbuf, ret, cmpres,
          ptops, stores, session, other, local, rconidx

vars == <<ctx, build, userkey, pc, call, frame, ctbuf, tagbuf, ptbuf, ret, cmpres,
          ptops, stores, session, other, local, rconidx>>

EmptyBuf == Buffer(0, 0)

NoCall == [fn |-> "none"]

NoSession == [enc |-> NoCall, tamper |-> [kind |-> "none", site |-> <<0, 0>>], fill |-> EmptyBuf]

(* No static function is being run on its own.                             *)
NoLocal == [pc |-> "none"]

(* The second thread outside any call.                                     *)
IdleThread == [pc |-> "idle", call |-> NoCall, frame |-> NewFrame, out |-> EmptyBuf,
               tag |-> EmptyBuf, ret |-> -2, cmpres |-> -1]

(* struct AES_ctx before AES_init_ctx: the caller's zeroed storage.         *)
NoCtx == [RoundKey |-> Buffer(AES_keyExpSize, 0), Iv |-> ZeroBlock]

(* AES_init_ctx(ctx, key): KeyExpansion(ctx->RoundKey, key).  It has no    *)
(* length parameter and no return value, and leaves ctx->Iv alone.         *)
AES_init_ctx(key, oob) == [NoCtx EXCEPT !.RoundKey = KeyExpansion(key, oob)]

(* The 4*Nk bytes KeyExpansion reads through the pointer key: the caller's *)
(* buffer and, past its end, whatever follows it in memory.                *)
KeyBytes(k, fill) ==
  Bytes([i \in 0..(4 * Nk - 1) |-> IF i < Size(k) THEN k[i] ELSE fill])

Init ==
  /\ \E oob \in OobBytes, ea \in EncLayouts, da \in DecLayouts :
       build = [rconOob |-> oob, encAbove |-> ea, decAbove |-> da]
  /\ ctx = NoCtx
  /\ userkey = EmptyBuf
  /\ other = IdleThread
  /\ local = NoLocal
  /\ pc = "uninit"
  /\ call = NoCall
  /\ frame = NewFrame
  /\ ctbuf = EmptyBuf
  /\ tagbuf = EmptyBuf
  /\ ptbuf = EmptyBuf
  /\ ret = "none"
  /\ cmpres = -1
  /\ ptops = {}
  /\ stores = {}
  /\ rconidx = {}
  /\ session = NoSession

(* The caller initializes the context with a key buffer k.                 *)
InitCall(k, fill) ==
  /\ pc = "uninit"
  /\ userkey' = k
  /\ ctx' = AES_init_ctx(KeyBytes(k, fill), build.rconOob)
  /\ rconidx' = RconIndices
  /\ pc' = "idle"
  /\ UNCHANGED <<build, other, call, frame, ctbuf, tagbuf, ptbuf, ret, cmpres, ptops, stores,
                 session, local>>

(***************************************************************************)
(* AES_GCM_encrypt.                                                        *)
(***************************************************************************)
(* A call with positive lengths and the pointer named by arg null.  The    *)
(* output buffers hold what the caller left in them.                       *)
EncryptCallNull(arg) ==
  /\ pc = "idle"
  /\ LET ptr(name, b) == IF arg = name THEN NULL ELSE b
     IN  call' = [fn |-> "encrypt", iv |-> ptr("iv", Pattern(AES_GCM_IV_LEN, 202)),
                  iv_len |-> AES_GCM_IV_LEN,
                  aad |-> ptr("aad", Pattern(MaxAadLen, 161)), aad_len |-> MaxAadLen,
                  pt |-> ptr("pt", Pattern(MaxPtLen, 49)), pt_len |-> MaxPtLen,
                  ct |-> ptr("ct", Addr("ctbuf")), tag |-> ptr("tag", Addr("tagbuf"))]
  /\ ctbuf' = Pattern(MaxPtLen, 90)
  /\ tagbuf' = Pattern(AES_GCM_TAG_LEN, 77)
  /\ pc' = "enc_entry"
  /\ UNCHANGED <<ctx, build, userkey, other, frame, ptbuf, ret, cmpres, ptops, stores,
                 session, local, rconidx>>

EncryptCall(iv, aad, p) ==
  /\ pc = "idle"
  /\ call' = [fn |-> "encrypt", iv |-> iv, iv_len |-> Size(iv), aad |-> aad,
              aad_len |-> Size(aad), pt |-> p, pt_len |-> Size(p),
              ct |-> Addr("ctbuf"), tag |-> Addr("tagbuf")]
  /\ ctbuf' = Buffer(Size(p), 0)
  /\ tagbuf' = ZeroBlock
  /\ pc' = "enc_entry"
  /\ UNCHANGED <<ctx, build, userkey, other, frame, ptbuf, ret, cmpres, ptops, stores,
                 session, local, rconidx>>

EncEntry ==
  /\ pc = "enc_entry"
  /\ IF EncInvalid(call)
       THEN ret' = -1 /\ pc' = "enc_ret" /\ frame' = frame
       ELSE ret' = ret /\ pc' = "enc_H" /\ frame' = NewFrame
  /\ UNCHANGED <<ctx, build, userkey, other, call, ctbuf, tagbuf, ptbuf, cmpres, ptops, stores,
                 session, local, rconidx>>

EncHashSubkey ==
  /\ pc = "enc_H"
  /\ frame' = HashSubkey(frame, ctx.RoundKey)
  /\ pc' = "enc_J0"
  /\ UNCHANGED <<ctx, build, userkey, other, call, ctbuf, tagbuf, ptbuf, ret, cmpres,
                 ptops, stores,
                 session, local, rconidx>>

EncPrepareJ0 ==
  /\ pc = "enc_J0"
  /\ call.iv # NULL
  /\ frame' = PrepareJ0(frame, build.encAbove, call.iv, call.iv_len, ctx.RoundKey)
  /\ stores' = IF call.iv_len = AES_GCM_IV_LEN THEN stores
                                               ELSE stores \cup LengthStores("len_block", 8)
  /\ pc' = "enc_aad"
  /\ UNCHANGED <<ctx, build, userkey, other, call, ctbuf, tagbuf, ptbuf, ret, cmpres, ptops,
                 session, local, rconidx>>

EncHashAad ==
  /\ pc = "enc_aad"
  /\ frame' = HashData(frame, call.aad, call.aad_len)
  /\ pc' = "enc_ctr"
  /\ UNCHANGED <<ctx, build, userkey, other, call, ctbuf, tagbuf, ptbuf, ret, cmpres,
                 ptops, stores,
                 session, local, rconidx>>

(* EncCtr keeping the counter block in ctx->Iv.                            *)
EncCtr_CtxCounter ==
  /\ pc = "enc_ctr"
  /\ LET m1 == StartCounter(frame)
         out == AES_CTR_xcrypt_buffer(ctx.RoundKey, m1["current_counter"],
                                      memcpy(ctbuf, call.pt, call.pt_len), call.pt_len)
     IN  IF call.pt_len > 0
           THEN /\ frame' = m1
                /\ ctx' = [ctx EXCEPT !.Iv = out.counter]
                /\ ctbuf' = out.buf
           ELSE /\ frame' = m1
                /\ ctx' = ctx
                /\ ctbuf' = ctbuf
  /\ pc' = "enc_ghash_ct"
  /\ UNCHANGED <<build, userkey, other, call, tagbuf, ptbuf, ret, cmpres, ptops, stores,
                 session, local, rconidx>>

EncCtr ==
  /\ pc = "enc_ctr"
  /\ LET m1 == StartCounter(frame)
         out == AES_CTR_xcrypt_buffer(ctx.RoundKey, m1["current_counter"],
                                      memcpy(ctbuf, call.pt, call.pt_len), call.pt_len)
     IN  IF call.pt_len > 0
           THEN /\ frame' = [m1 EXCEPT !["current_counter"] = out.counter]
                /\ ctbuf' = out.buf
           ELSE /\ frame' = m1
                /\ ctbuf' = ctbuf
  /\ pc' = "enc_ghash_ct"
  /\ UNCHANGED <<ctx, build, userkey, other, call, tagbuf, ptbuf, ret, cmpres, ptops, stores,
                 session, local, rconidx>>

EncHashCt ==
  /\ pc = "enc_ghash_ct"
  /\ frame' = HashData(frame, ctbuf, call.pt_len)
  /\ pc' = "enc_len"
  /\ UNCHANGED <<ctx, build, userkey, other, call, ctbuf, tagbuf, ptbuf, ret, cmpres,
                 ptops, stores,
                 session, local, rconidx>>

EncFinalLengths ==
  /\ pc = "enc_len"
  /\ frame' = FinalLengths(frame, build.encAbove, call.aad_len, call.pt_len)
  /\ stores' = stores \cup LengthStores("final_len_block", 0)
                      \cup LengthStores("final_len_block", 8)
  /\ pc' = "enc_tag"
  /\ UNCHANGED <<ctx, build, userkey, other, call, ctbuf, tagbuf, ptbuf, ret, cmpres, ptops,
                 session, local, rconidx>>

EncTag ==
  /\ pc = "enc_tag"
  /\ tagbuf' = TagOf(frame)
  /\ ret' = 0
  /\ pc' = "enc_ret"
  /\ UNCHANGED <<ctx, build, userkey, other, call, frame, ctbuf, ptbuf, cmpres, ptops, stores,
                 session, local, rconidx>>

(***************************************************************************)
(* AES_GCM_decrypt, called with the output of the encrypt call, one bit of *)
(* one argument possibly flipped.                                          *)
(***************************************************************************)
DecryptCall(t) ==
  /\ pc = "enc_ret"
  /\ ret = 0
  /\ LET fill == Pattern(call.pt_len, 165)
         flip(kind, b) == IF t.kind = kind THEN Flip(b, t.site)
                          ELSE IF t.kind = "null_" \o kind THEN NULL ELSE b
     IN  /\ session' = [enc |-> call, tamper |-> t, fill |-> fill]
         /\ call' = [fn |-> "decrypt", iv |-> flip("iv", call.iv), iv_len |-> call.iv_len,
                     aad |-> flip("aad", call.aad), aad_len |-> call.aad_len,
                     ct |-> flip("ct", ctbuf), ct_len |-> call.pt_len,
                     pt |-> flip("pt", Addr("ptbuf")), tag |-> flip("tag", tagbuf)]
         /\ ptbuf' = fill
  /\ ret' = "none"
  /\ cmpres' = -1
  /\ ptops' = {}
  /\ stores' = {}
  /\ pc' = "dec_entry"
  /\ UNCHANGED <<ctx, build, userkey, other, frame, ctbuf, tagbuf, local, rconidx>>

(* DecEntry clearing the plaintext buffer before it reports a bad argument *)
DecEntry_ZeroOnInvalid ==
  /\ pc = "dec_entry"
  /\ IF DecInvalid(call)
       THEN /\ ret' = -1 /\ pc' = "dec_ret" /\ frame' = frame
            /\ ptbuf' = IF call.pt = NULL THEN ptbuf ELSE memset(ptbuf, 0, call.ct_len)
       ELSE ret' = ret /\ pc' = "dec_H" /\ frame' = NewFrame /\ ptbuf' = ptbuf
  /\ UNCHANGED <<ctx, build, userkey, other, call, ctbuf, tagbuf, cmpres, ptops, stores,
                 session, local, rconidx>>

DecEntry ==
  /\ pc = "dec_entry"
  /\ IF DecInvalid(call)
       THEN ret' = -1 /\ pc' = "dec_ret" /\ frame' = frame
       ELSE ret' = ret /\ pc' = "dec_H" /\ frame' = NewFrame
  /\ UNCHANGED <<ctx, build, userkey, other, call, ctbuf, tagbuf, ptbuf, cmpres, ptops, stores,
                 session, local, rconidx>>

DecHashSubkey ==
  /\ pc = "dec_H"
  /\ frame' = HashSubkey(frame, ctx.RoundKey)
  /\ pc' = "dec_J0"
  /\ UNCHANGED <<ctx, build, userkey, other, call, ctbuf, tagbuf, ptbuf, ret, cmpres,
                 ptops, stores,
                 session, local, rconidx>>

DecPrepareJ0 ==
  /\ pc = "dec_J0"
  /\ call.iv # NULL
  /\ frame' = PrepareJ0(frame, build.decAbove, call.iv, call.iv_len, ctx.RoundKey)
  /\ stores' = IF call.iv_len = AES_GCM_IV_LEN THEN stores
                                               ELSE stores \cup LengthStores("len_block", 8)
  /\ pc' = "dec_aad"
  /\ UNCHANGED <<ctx, build, userkey, other, call, ctbuf, tagbuf, ptbuf, ret, cmpres, ptops,
                 session, local, rconidx>>

DecHashAad ==
  /\ pc = "dec_aad"
  /\ frame' = HashData(frame, call.aad, call.aad_len)
  /\ pc' = "dec_ghash_ct"
  /\ UNCHANGED <<ctx, build, userkey, other, call, ctbuf, tagbuf, ptbuf, ret, cmpres,
                 ptops, stores,
                 session, local, rconidx>>

DecHashCt ==
  /\ pc = "dec_ghash_ct"
  /\ frame' = HashData(frame, call.ct, call.ct_len)
  /\ pc' = "dec_len"
  /\ UNCHANGED <<ctx, build, userkey, other, call, ctbuf, tagbuf, ptbuf, ret, cmpres,
                 ptops, stores,
                 session, local, rconidx>>

DecFinalLengths ==
  /\ pc = "dec_len"
  /\ frame' = FinalLengths(frame, build.decAbove, call.aad_len, call.ct_len)
  /\ stores' = stores \cup LengthStores("final_len_block", 0)
                      \cup LengthStores("final_len_block", 8)
  /\ pc' = "dec_tag"
  /\ UNCHANGED <<ctx, build, userkey, other, call, ctbuf, tagbuf, ptbuf, ret, cmpres, ptops,
                 session, local, rconidx>>

(* 6. calculated_tag = GHASH_result ^ E_K(J0) *)
DecTag ==
  /\ pc = "dec_tag"
  /\ frame' = [frame EXCEPT !["calculated_tag"] = TagOf(frame)]
  /\ pc' = "dec_compare"
  /\ UNCHANGED <<ctx, build, userkey, other, call, ctbuf, tagbuf, ptbuf, ret, cmpres,
                 ptops, stores,
                 session, local, rconidx>>

(* 7. constant_time_memcmp(calculated_tag, tag, AES_GCM_TAG_LEN) *)
DecCompare ==
  /\ pc = "dec_compare"
  /\ cmpres' = constant_time_memcmp(frame["calculated_tag"], call.tag, AES_GCM_TAG_LEN)
  /\ pc' = "dec_compared"
  /\ UNCHANGED <<ctx, build, userkey, other, call, frame, ctbuf, tagbuf, ptbuf, ret,
                 ptops, stores,
                 session, local, rconidx>>

(* DecReject without the memset.                                           *)
DecReject_NoZero ==
  /\ pc = "dec_compared"
  /\ cmpres # 0
  /\ ret' = -3
  /\ pc' = "dec_ret"
  /\ UNCHANGED <<ctx, build, userkey, other, call, frame, ctbuf, tagbuf, ptbuf, cmpres,
                 ptops, stores,
                 session, local, rconidx>>

(* ... != 0: memset(pt, 0, ct_len); return -3 *)
DecReject ==
  /\ pc = "dec_compared"
  /\ cmpres # 0
  /\ ptbuf' = memset(ptbuf, 0, call.ct_len)
  /\ ptops' = ptops \cup {"memset"}
  /\ ret' = -3
  /\ pc' = "dec_ret"
  /\ UNCHANGED <<ctx, build, userkey, other, call, frame, ctbuf, tagbuf, cmpres, stores,
                 session, local, rconidx>>

(* DecCtr placed before the comparison, as step 4 is in AES_GCM_encrypt.   *)
DecCtr_Unverified ==
  /\ pc = "dec_compare"
  /\ LET m1 == StartCounter(frame)
         out == AES_CTR_xcrypt_buffer(ctx.RoundKey, m1["current_counter"],
                                      memcpy(ptbuf, call.ct, call.ct_len), call.ct_len)
     IN  IF call.ct_len > 0
           THEN /\ frame' = [m1 EXCEPT !["current_counter"] = out.counter]
                /\ ptbuf' = out.buf
                /\ ptops' = ptops \cup {"memcpy", "ctr"}
           ELSE /\ frame' = m1
                /\ ptbuf' = ptbuf
                /\ ptops' = ptops
  /\ ret' = 0
  /\ pc' = "dec_ret"
  /\ UNCHANGED <<ctx, build, userkey, other, call, ctbuf, tagbuf, cmpres, stores, session,
                 local, rconidx>>

(* 8. Decrypt using CTR mode (starting counter is J0+1); return 0 *)
DecCtr ==
  /\ pc = "dec_compared"
  /\ cmpres = 0
  /\ LET m1 == StartCounter(frame)
         out == AES_CTR_xcrypt_buffer(ctx.RoundKey, m1["current_counter"],
                                      memcpy(ptbuf, call.ct, call.ct_len), call.ct_len)
     IN  IF call.ct_len > 0
           THEN /\ frame' = [m1 EXCEPT !["current_counter"] = out.counter]
                /\ ptbuf' = out.buf
                /\ ptops' = ptops \cup {"memcpy", "ctr"}
           ELSE /\ frame' = m1
                /\ ptbuf' = ptbuf
                /\ ptops' = ptops
  /\ ret' = 0
  /\ pc' = "dec_ret"
  /\ UNCHANGED <<ctx, build, userkey, other, call, ctbuf, tagbuf, cmpres, stores, session,
                 local, rconidx>>

(***************************************************************************)
(* memcpy(J0, iv, iv_len) / ghash_update(GCM_S, H, iv, iv_len) with iv     *)
(* null: the entry check lets a null iv through.  The read through the     *)
(* null pointer either traps or yields the bytes at address 0.             *)
(***************************************************************************)
NullIvRead(fill) ==
  /\ pc \in {"enc_J0", "dec_J0"}
  /\ call.iv = NULL
  /\ frame' = PrepareJ0(frame, IF pc = "enc_J0" THEN build.encAbove ELSE build.decAbove,
                        Buffer(call.iv_len, fill), call.iv_len, ctx.RoundKey)
  /\ stores' = IF call.iv_len = AES_GCM_IV_LEN THEN stores
                                               ELSE stores \cup LengthStores("len_block", 8)
  /\ pc' = IF pc = "enc_J0" THEN "enc_aad" ELSE "dec_aad"
  /\ UNCHANGED <<ctx, build, userkey, other, call, ctbuf, tagbuf, ptbuf, ret, cmpres, ptops,
                 session, local, rconidx>>

NullIvTrap ==
  /\ pc \in {"enc_J0", "dec_J0"}
  /\ call.iv = NULL
  /\ pc' = "trap"
  /\ UNCHANGED <<ctx, build, userkey, other, call, frame, ctbuf, tagbuf, ptbuf, ret,
                 cmpres, ptops,
                 stores, session, local, rconidx>>

(***************************************************************************)
(* The second thread.  It shares ctx with the first and has its own        *)
(* arguments and output buffers.  It calls AES_GCM_encrypt while the first *)
(* thread is entering AES_GCM_encrypt, then AES_GCM_decrypt with what it   *)
(* got, and its steps interleave with the first's.                         *)
(***************************************************************************)
OtherCall ==
  /\ pc = "enc_entry"
  /\ other.pc = "idle"
  /\ LET iv == Pattern(AES_GCM_IV_LEN, 17)
         aad == Pattern(SharedLen, 5)
         p == Pattern(SharedLen, 99)
     IN  other' = [pc |-> "enc_entry",
                   call |-> [fn |-> "encrypt", iv |-> iv, iv_len |-> Size(iv), aad |-> aad,
                             aad_len |-> Size(aad), pt |-> p, pt_len |-> Size(p),
                             ct |-> Addr("other.out"), tag |-> Addr("other.tag")],
                   frame |-> NewFrame, out |-> Buffer(Size(p), 0), tag |-> ZeroBlock,
                   ret |-> -2, cmpres |-> -1]
  /\ UNCHANGED <<ctx, build, userkey, pc, call, frame, ctbuf, tagbuf, ptbuf, ret, cmpres,
                 ptops, stores, session, local, rconidx>>

OtherDecryptCall ==
  /\ other.pc = "ret"
  /\ other.call.fn = "encrypt"
  /\ other.ret = 0
  /\ LET c == other.call
     IN  other' = [pc |-> "dec_entry",
                   call |-> [fn |-> "decrypt", iv |-> c.iv, iv_len |-> c.iv_len,
                             aad |-> c.aad, aad_len |-> c.aad_len,
                             ct |-> other.out, ct_len |-> c.pt_len,
                             pt |-> Addr("other.out"), tag |-> other.tag],
                   frame |-> other.frame, out |-> Pattern(c.pt_len, 165),
                   tag |-> other.tag, ret |-> -2, cmpres |-> -1]
  /\ UNCHANGED <<ctx, build, userkey, pc, call, frame, ctbuf, tagbuf, ptbuf, ret, cmpres,
                 ptops, stores, session, local, rconidx>>

OtherStep ==
  /\ other.pc \notin {"idle", "ret"}
  /\ other' = GcmStep(other, ctx.RoundKey, build.encAbove, build.decAbove)
  /\ UNCHANGED <<ctx, build, userkey, pc, call, frame, ctbuf, tagbuf, ptbuf, ret, cmpres,
                 ptops, stores, session, local, rconidx>>

OtherReturn ==
  /\ other.pc = "ret"
  /\ other.call.fn = "decrypt" \/ other.ret # 0
  /\ other' = IdleThread
  /\ UNCHANGED <<ctx, build, userkey, pc, call, frame, ctbuf, tagbuf, ptbuf, ret, cmpres,
                 ptops, stores, session, local, rconidx>>

(* The caller is done with the call and its buffers.                       *)
Return ==
  /\ \/ pc = "dec_ret"
     \/ pc = "enc_ret" /\ (ret # 0 \/ userkey \notin Keys)
  /\ pc' = "idle"
  /\ call' = NoCall
  /\ frame' = NewFrame
  /\ ctbuf' = EmptyBuf
  /\ tagbuf' = EmptyBuf
  /\ ptbuf' = EmptyBuf
  /\ ret' = "none"
  /\ cmpres' = -1
  /\ ptops' = {}
  /\ stores' = {}
  /\ session' = NoSession
  /\ UNCHANGED <<ctx, build, userkey, other, local, rconidx>>

Next ==
  \/ \E k \in Keys : InitCall(k, 0)
  \/ \E k \in ShortKeys, fill \in KeyOobBytes : InitCall(k, fill)
  \/ \E il \in IvLens, al \in AadLens, pl \in PtLens :
       /\ userkey \in Keys
       /\ EncryptCall(Pattern(il, 202), Pattern(al, 161), Pattern(pl, 49))
  \/ \E arg \in {"iv", "aad", "pt", "ct", "tag"} : userkey \in Keys /\ EncryptCallNull(arg)
  \/ /\ Size(userkey) = 16
     /\ EncryptCall(Buffer(AES_GCM_IV_LEN, 0), EmptyBuf, Buffer(AES_BLOCKLEN, 0))
  \/ EncEntry
  \/ EncHashSubkey
  \/ EncPrepareJ0
  \/ EncHashAad
  \/ EncCtr
  \/ EncHashCt
  \/ EncFinalLengths
  \/ EncTag
  \/ \E t \in Tampers(call) : userkey \in Keys /\ DecryptCall(t)
  \/ DecEntry
  \/ DecHashSubkey
  \/ DecPrepareJ0
  \/ DecHashAad
  \/ DecHashCt
  \/ DecFinalLengths
  \/ DecTag
  \/ DecCompare
  \/ DecReject
  \/ DecCtr
  \/ \E fill \in NullPageBytes : NullIvRead(fill)
  \/ NullIvTrap
  \/ Return

Spec == Init /\ [][Next]_vars

(***************************************************************************)
(* Two threads sharing one initialized ctx: each encrypts and then         *)
(* decrypts what it produced.                                              *)
(***************************************************************************)
NextShared ==
  \/ \E k \in Keys : InitCall(k, 0)
  \/ EncryptCall(Pattern(13, 202), Pattern(SharedLen, 161), Pattern(SharedLen, 49))
  \/ EncEntry
  \/ EncHashSubkey
  \/ EncPrepareJ0
  \/ EncHashAad
  \/ EncCtr
  \/ EncHashCt
  \/ EncFinalLengths
  \/ EncTag
  \/ DecryptCall([kind |-> "none", site |-> <<0, 0>>])
  \/ DecEntry
  \/ DecHashSubkey
  \/ DecPrepareJ0
  \/ DecHashAad
  \/ DecHashCt
  \/ DecFinalLengths
  \/ DecTag
  \/ DecCompare
  \/ DecReject
  \/ DecCtr
  \/ Return
  \/ OtherCall
  \/ OtherDecryptCall
  \/ OtherStep
  \/ OtherReturn

SpecShared == Init /\ [][NextShared]_vars

(***************************************************************************)
(* The static functions run on their own.  local holds the arguments and   *)
(* the locals of the function being run: for AES_CTR_xcrypt_buffer and     *)
(* increment_counter_j0 the counter block given and the counter block      *)
(* left; for constant_time_memcmp the two buffers, num, the index i, the   *)
(* accumulator result, the number of loop bodies executed and the value    *)
(* returned.                                                               *)
(***************************************************************************)
MaxCtrLen == 33
MaxCmpLen == 16

(* The counter blocks tried: a tail about to wrap in one, two, three or    *)
(* four of its bytes, under a byte 11 that a carry would change.           *)
CounterTails ==
  { <<0, 0, 0, 0>>, <<0, 0, 0, 255>>, <<0, 0, 255, 255>>, <<0, 255, 255, 255>>,
    <<255, 255, 255, 253>>, <<255, 255, 255, 254>>, <<255, 255, 255, 255>> }

CounterBlock(b11, tail) ==
  Bytes([k \in Blk |-> IF k < 11 THEN (202 + 29 * k) % 256
                       ELSE IF k = 11 THEN b11 ELSE tail[k - 11]])

CtrLens == {0, 1, AES_BLOCKLEN, AES_BLOCKLEN + 1, MaxCtrLen - 1, MaxCtrLen}

InitCounter ==
  /\ \E oob \in OobBytes, ea \in EncLayouts, da \in DecLayouts :
       build = [rconOob |-> oob, encAbove |-> ea, decAbove |-> da]
  /\ \E k \in Keys : userkey = k
  /\ ctx = AES_init_ctx(KeyBytes(userkey, 0), build.rconOob)
  /\ other = IdleThread
  /\ pc = "idle"
  /\ call = NoCall
  /\ frame = NewFrame
  /\ ctbuf = EmptyBuf
  /\ tagbuf = EmptyBuf
  /\ ptbuf = EmptyBuf
  /\ ret = "none"
  /\ cmpres = -1
  /\ ptops = {}
  /\ stores = {}
  /\ rconidx = RconIndices
  /\ session = NoSession
  /\ \E b11 \in {0, 255}, tail \in CounterTails, length \in CtrLens :
       local = [pc |-> "called", counter0 |-> CounterBlock(b11, tail),
                length |-> length, counter |-> CounterBlock(b11, tail),
                buf |-> Pattern(length, 49)]

(* AES_CTR_xcrypt_buffer(ctx, counter, buf, length) *)
CtrXcrypt ==
  /\ local.pc = "called"
  /\ LET out == AES_CTR_xcrypt_buffer(ctx.RoundKey, local.counter, local.buf, local.length)
     IN  local' = [local EXCEPT !.counter = out.counter, !.buf = out.buf, !.pc = "xcrypt_ret"]
  /\ UNCHANGED <<ctx, build, userkey, other, pc, call, frame, ctbuf, tagbuf, ptbuf, ret,
                 cmpres, ptops, stores, session, rconidx>>

(* increment_counter_j0(counter) *)
IncrementJ0 ==
  /\ local.pc = "called"
  /\ local' = [local EXCEPT !.counter = increment_counter_j0(@), !.pc = "increment_ret"]
  /\ UNCHANGED <<ctx, build, userkey, other, pc, call, frame, ctbuf, tagbuf, ptbuf, ret,
                 cmpres, ptops, stores, session, rconidx>>

NextCounter ==
  \/ CtrXcrypt
  \/ IncrementJ0

SpecCounter == InitCounter /\ [][NextCounter]_vars

(* The pairs of buffers compared: equal, differing in the first byte, in   *)
(* the last, in the middle, in two bytes by the same bits, in every byte.  *)
CmpDiffs ==
  { {}, {0}, {MaxCmpLen - 1}, {MaxCmpLen \div 2}, {0, 1}, 0..(MaxCmpLen - 1) }

CmpNums == {0, 1, MaxCmpLen - 1, MaxCmpLen}

InitCompare ==
  /\ \E oob \in OobBytes, ea \in EncLayouts, da \in DecLayouts :
       build = [rconOob |-> oob, encAbove |-> ea, decAbove |-> da]
  /\ ctx = NoCtx
  /\ userkey = EmptyBuf
  /\ other = IdleThread
  /\ pc = "uninit"
  /\ call = NoCall
  /\ frame = NewFrame
  /\ ctbuf = EmptyBuf
  /\ tagbuf = EmptyBuf
  /\ ptbuf = EmptyBuf
  /\ ret = "none"
  /\ cmpres = -1
  /\ ptops = {}
  /\ stores = {}
  /\ rconidx = {}
  /\ session = NoSession
  /\ \E d \in CmpDiffs, num \in CmpNums :
       local = [pc |-> "called", a |-> Pattern(MaxCmpLen, 77),
                b |-> Bytes([k \in 0..(MaxCmpLen - 1) |->
                               IF k \in d THEN XOR(Pattern(MaxCmpLen, 77)[k], 129)
                                          ELSE Pattern(MaxCmpLen, 77)[k]]),
                num |-> num, i |-> 0, result |-> 0, bodies |-> 0, ret |-> -1]

(* uint8_t result = 0; i = 0 *)
CmpEnter ==
  /\ local.pc = "called"
  /\ local' = [local EXCEPT !.result = 0, !.i = 0, !.pc = "loop"]
  /\ UNCHANGED <<ctx, build, userkey, other, pc, call, frame, ctbuf, tagbuf, ptbuf, ret,
                 cmpres, ptops, stores, session, rconidx>>

(* The loop body leaving the loop at the first byte that differs.          *)
CmpIter_EarlyExit ==
  /\ local.pc = "loop"
  /\ local.i < local.num
  /\ local' = [local EXCEPT !.result = OR(@, XOR(local.a[local.i], local.b[local.i])),
                            !.i = IF local.a[local.i] # local.b[local.i] THEN local.num
                                                                         ELSE @ + 1,
                            !.bodies = @ + 1]
  /\ UNCHANGED <<ctx, build, userkey, other, pc, call, frame, ctbuf, tagbuf, ptbuf, ret,
                 cmpres, ptops, stores, session, rconidx>>

(* i < num: result |= (a[i] ^ b[i]); ++i *)
CmpIter ==
  /\ local.pc = "loop"
  /\ local.i < local.num
  /\ local' = [local EXCEPT !.result = OR(@, XOR(local.a[local.i], local.b[local.i])),
                            !.i = @ + 1,
                            !.bodies = @ + 1]
  /\ UNCHANGED <<ctx, build, userkey, other, pc, call, frame, ctbuf, tagbuf, ptbuf, ret,
                 cmpres, ptops, stores, session, rconidx>>

(* i >= num: return (result != 0) *)
CmpReturn ==
  /\ local.pc = "loop"
  /\ local.i >= local.num
  /\ local' = [local EXCEPT !.ret = IF local.result # 0 THEN 1 ELSE 0, !.pc = "memcmp_ret"]
  /\ UNCHANGED <<ctx, build, userkey, other, pc, call, frame, ctbuf, tagbuf, ptbuf, ret,
                 cmpres, ptops, stores, session, rconidx>>

NextCompare ==
  \/ CmpEnter
  \/ CmpIter
  \/ CmpReturn

SpecCompare == InitCompare /\ [][NextCompare]_vars

(***************************************************************************)
(* Reference definitions used by the properties: the GF(2^128) product and *)
(* GHASH of SP 800-38D, big-endian lengths, counter addition.              *)
(***************************************************************************)
(* The bit-serial product Z of X and Y: the double loop of ghash_gmul on   *)
(* three distinct arrays.                                                  *)
GF_mul(X, Y) ==
  ghash_gmul([opx |-> X, opy |-> Y, opz |-> ZeroBlock], "opx", "opy", "opz")["opz"]

PaddedBlock(D, L, n) == Bytes([k \in Blk |-> IF 16 * n + k < L THEN D[16 * n + k] ELSE 0])

RECURSIVE RefGhashFrom(_, _, _, _, _)
RefGhashFrom(S, Hk, D, L, n) ==
  IF 16 * n < L
    THEN RefGhashFrom(GF_mul(XorBlock(S, PaddedBlock(D, L, n)), Hk), Hk, D, L, n + 1)
    ELSE S

(* S after absorbing the ceil(L/16) zero-padded blocks of D.               *)
RefGhash(S, Hk, D, L) == RefGhashFrom(S, Hk, D, L, 0)

(* n as a big-endian 64-bit integer (n < 2^31).                            *)
Be64(n) == [k \in 0..7 |-> IF k < 4 THEN 0 ELSE (n \div (2^(8 * (7 - k)))) % 256]

LengthBlock(a_bits, b_bits) ==
  Bytes([k \in Blk |-> IF k < 8 THEN Be64(a_bits)[k] ELSE Be64(b_bits)[k - 8]])

(* The counter block C with n added to its rightmost 32 bits, mod 2^32.    *)
CounterPlus(C, n) ==
  LET hi == (C[12] * 256 + C[13])
      lo == (C[14] * 256 + C[15]) + n
      hi1 == (hi + lo \div 65536) % 65536
  IN  Bytes([k \in Blk |-> CASE k = 12 -> hi1 \div 256
                             [] k = 13 -> hi1 % 256
                             [] k = 14 -> (lo % 65536) \div 256
                             [] k = 15 -> lo % 256
                             [] OTHER -> C[k]])

TrueH == Cipher(ZeroBlock, ctx.RoundKey)

(***************************************************************************)
(* Properties.                                                             *)
(***************************************************************************)

C2_TagSensitivityData ==
  pc = "dec_ret" /\ session.tamper.kind \in {"ct", "aad"} => ret = -3

(* C3: with one bit of the IV flipped (same length, 12 bytes or not),      *)
(* AES_GCM_decrypt returns -3, never 0.                                    *)
C3_TagSensitivityIv ==
  pc = "dec_ret" /\ session.tamper.kind = "iv" => ret = -3

(* C4: in AES_GCM_decrypt no byte of the plaintext buffer is written       *)
(* before constant_time_memcmp has returned, and the copy of CT and the    *)
(* CTR XOR happen only when it reported equality.                          *)
C4_VerifyBeforeDecrypt ==
  call.fn = "decrypt" =>
    /\ (cmpres = -1 => ptops = {} /\ ptbuf = session.fill)
    /\ (ptops \cap {"memcpy", "ctr"} # {} => cmpres = 0)

C4_Witness ==
  pc = "dec_ret" /\ ret = 0 /\ ptops = {"memcpy", "ctr"} /\ cmpres = 0
    /\ ptbuf # session.fill

(* C5: whenever AES_GCM_decrypt returns -3, every byte of the plaintext    *)
(* buffer in [0, ct_len) is 0, whatever it held before the call.           *)
C5_ZeroOnFailure ==
  pc = "dec_ret" /\ ret = -3 => \A i \in 0..(call.ct_len - 1) : ptbuf[i] = 0

C5_Witness ==
  pc = "dec_ret" /\ ret = -3 /\ call.ct_len > 0
    /\ \A i \in 0..(call.ct_len - 1) : session.fill[i] # 0

(* C6: AES_GCM_decrypt returns 0 only if all 16 bytes of the supplied tag  *)
(* equal the tag it computed, and returns -3 whenever the two differ.      *)
C6_TagMismatchRejected ==
  pc = "dec_ret" /\ ret # -1 =>
    /\ (ret = 0 => \A i \in 0..(AES_GCM_TAG_LEN - 1) : call.tag[i] = frame["calculated_tag"][i])
    /\ ((\E i \in 0..(AES_GCM_TAG_LEN - 1) : call.tag[i] # frame["calculated_tag"][i])
          => ret = -3)

C6_Witness ==
  pc = "dec_ret" /\ ret = -3 /\ session.tamper.kind = "tag"
    /\ session.tamper.site = <<AES_GCM_TAG_LEN - 1, 7>>

(* C7: AES_CTR_xcrypt_buffer XORs byte i of the buffer with byte i mod 16  *)
(* of AES_K(C + floor(i/16)); with C = J0+1 as AES_GCM_encrypt passes it,  *)
(* ciphertext block j is plaintext block j XOR AES_K(J0 + 1 + j).          *)
C7_CtrKeystream ==
  pc = "enc_ghash_ct" =>
    \A i \in 0..(call.pt_len - 1) :
      ctbuf[i] = XOR(call.pt[i],
                     Cipher(CounterPlus(frame["J0"], 1 + (i \div 16)), ctx.RoundKey)[i % 16])

(* C8: ghash_update replaces S, for each of the ceil(L/16) zero-padded     *)
(* blocks B_i of D in order, by GF_mul(S XOR B_i, H); for L = 0 it leaves  *)
(* S unchanged.  (Stated for the call on the AAD, which starts from S = 0) *)
C8_GhashUpdate ==
  pc \in {"enc_ctr", "dec_ghash_ct"} =>
    frame["GCM_S"] = RefGhash(ZeroBlock, frame["H"], call.aad, call.aad_len)

(* C9: the last block absorbed into GHASH before the tag is formed is      *)
(* bytes 0..7 = |AAD| in bits, bytes 8..15 = |PT| (|CT|) in bits, both     *)
(* big-endian 64-bit.                                                      *)
C9_FinalLengthBlock ==
  /\ (pc = "enc_tag" =>
        frame["final_len_block"] = LengthBlock(call.aad_len * 8, call.pt_len * 8))
  /\ (pc = "dec_tag" =>
        frame["final_len_block"] = LengthBlock(call.aad_len * 8, call.ct_len * 8))

(* C10: for an IV of length >= 1 and not 12, J0 is the GHASH under H, from *)
(* a zero accumulator, of the zero-padded IV followed by the block of 8    *)
(* zero bytes and the IV length in bits as a big-endian 64-bit integer.    *)
C10_J0FromGhash ==
  pc \in {"enc_aad", "dec_aad"} /\ call.iv_len # AES_GCM_IV_LEN =>
    frame["J0"] = RefGhash(RefGhash(ZeroBlock, TrueH, call.iv, call.iv_len),
                           TrueH, LengthBlock(0, call.iv_len * 8), 16)

(* C11: AES_GCM_encrypt and AES_GCM_decrypt return -1 (InvalidArgument),   *)
(* without going on to use the pointer, whenever the IV, AAD or PT/CT      *)
(* length is nonzero while the corresponding pointer is null.              *)
DataPtr(c) == IF c.fn = "encrypt" THEN c.pt ELSE c.ct

DataLen(c) == IF c.fn = "encrypt" THEN c.pt_len ELSE c.ct_len

NullWithLength(c) ==
  \/ (c.iv = NULL /\ c.iv_len > 0)
  \/ (c.aad = NULL /\ c.aad_len > 0)
  \/ (DataPtr(c) = NULL /\ DataLen(c) > 0)

C11_NullPointerRejected ==
  (pc \notin {"uninit", "idle", "enc_entry", "dec_entry"} /\ NullWithLength(call))
    => (pc \in {"enc_ret", "dec_ret"} /\ ret = -1)

(* C12: whenever AES_GCM_encrypt or AES_GCM_decrypt returns -1, the        *)
(* context, the ciphertext/plaintext output buffer and the tag buffer are  *)
(* byte for byte what they were before the call.                           *)
C12_InvalidArgumentMutatesNothing ==
  [][(pc' # pc /\ pc' \in {"enc_ret", "dec_ret"} /\ ret' = -1)
       => (pc \in {"enc_entry", "dec_entry"} /\ ctx' = ctx /\ ctbuf' = ctbuf
             /\ tagbuf' = tagbuf /\ ptbuf' = ptbuf)]_vars

C12_Witness ==
  /\ pc = "dec_ret" /\ ret = -1 /\ session.tamper.kind = "null_aad"
  /\ call.ct_len > 0 /\ ptbuf = session.fill /\ ctx # NoCtx

(* C13: init called with a key whose length is not 16, 24, 32 or 64 bytes  *)
(* fails and produces no usable context; it succeeds for exactly those     *)
(* four lengths.                                                           *)
C13_InitRejectsBadKeyLength ==
  pc # "uninit" => (Size(userkey) \in {16, 24, 32, 64} <=> ctx # NoCtx)

(* C14: in the configuration the headers select, Nk, AES_KEYLEN and Nr     *)
(* form one of the pairs (4,10), (6,12), (8,14), (16,22) with              *)
(* Nk = AES_KEYLEN/4: KeyExpansion consumes AES_KEYLEN bytes of key, and   *)
(* the schedule holds exactly Nr+1 subkeys of 16 bytes.                    *)
C14_KeySizeRoundPairing ==
  (pc # "uninit" /\ Size(userkey) = AES_KEYLEN) =>
    /\ <<Nk, Nr>> \in {<<4, 10>>, <<6, 12>>, <<8, 14>>, <<16, 22>>}
    /\ 4 * Nk = AES_KEYLEN
    /\ Size(ctx.RoundKey) = AES_BLOCKLEN * (Nr + 1)
    /\ \A i \in 0..(AES_KEYLEN - 1) : ctx.RoundKey[i] = userkey[i]

(* C15: two AES_GCM_encrypt calls with the same key, IV, AAD and PT give   *)
(* identical CT and Tag; and for a fixed key and IV the keystream          *)
(* (CT XOR PT) is the same for every AAD and every plaintext content of a  *)
(* given length.                                                           *)
Keystream(c, p, n) == [k \in 0..(n - 1) |-> XOR(c[k], p[k])]

(* The call in progress repeated with another AAD and another plaintext of *)
(* the same length.                                                        *)
OtherEncrypt(aad2, pt2) ==
  AES_GCM_encrypt([call EXCEPT !.aad = aad2, !.aad_len = Size(aad2), !.pt = pt2],
                  ctx.RoundKey, build.encAbove, Buffer(call.pt_len, 0), ZeroBlock)

C15_DeterminismAndKeystream ==
  (pc = "enc_ret" /\ ret = 0 /\ call.iv # NULL /\ call.ct = Addr("ctbuf")) =>
    LET again == OtherEncrypt(call.aad, call.pt)
        aad2 == OtherEncrypt(Pattern(MaxAadLen, 7), call.pt)
        pt2 == OtherEncrypt(call.aad, Pattern(call.pt_len, 200))
        ks == Keystream(ctbuf, call.pt, call.pt_len)
    IN  /\ again.ret = 0 /\ again.ct = ctbuf /\ again.tag = tagbuf
        /\ Keystream(aad2.ct, call.pt, call.pt_len) = ks
        /\ Keystream(pt2.ct, Pattern(call.pt_len, 200), call.pt_len) = ks

C15_Witness ==
  /\ pc = "enc_ret" /\ ret = 0 /\ call.iv # NULL /\ call.pt_len = MaxPtLen
  /\ call.aad_len = 0 /\ call.pt # Pattern(call.pt_len, 200)
  /\ \E k \in 0..(call.pt_len - 1) : ctbuf[k] # call.pt[k]

(* The pre-counter block J0 of SP 800-38D for an IV.                       *)
RefJ0(iv, iv_len) ==
  IF iv_len = 12
    THEN Bytes([k \in Blk |-> IF k < 12 THEN iv[k] ELSE IF k = 15 THEN 1 ELSE 0])
    ELSE RefGhash(RefGhash(ZeroBlock, TrueH, iv, iv_len),
                  TrueH, LengthBlock(0, iv_len * 8), 16)

(* C16: AES_GCM_encrypt with empty AAD and empty plaintext (IV of length   *)
(* >= 1) returns 0, and the tag it writes equals AES_K(J0) XOR GHASH(H,    *)
(* the all-zero length block).                                             *)
C16_EmptyInputsTag ==
  (pc = "enc_ret" /\ call.iv_len >= 1 /\ call.iv # NULL
     /\ call.aad_len = 0 /\ call.pt_len = 0) =>
    /\ ret = 0
    /\ tagbuf = XorBlock(Cipher(RefJ0(call.iv, call.iv_len), ctx.RoundKey),
                         RefGhash(ZeroBlock, TrueH, LengthBlock(0, 0), 16))

(* A byte string written as a sequence.                                    *)
FromSeq(sq) == Bytes([k \in 0..(Len(sq) - 1) |-> sq[k + 1]])

(* C17: NIST SP 800-38D case 2: PT = 16 zero bytes under the all-zero      *)
(* 128-bit key, the all-zero 12-byte IV and empty AAD gives                *)
(* CT = 03 88 da ce 60 b6 a3 92 f3 28 c2 b9 71 b2 fe 78 and                *)
(* Tag = ab 6e 47 d4 2c ec 13 bd f5 3a 67 b2 12 57 bd df.                  *)
C17_NistCase2 ==
  (pc = "enc_ret" /\ userkey = Buffer(16, 0) /\ call.iv = Buffer(12, 0)
     /\ call.aad_len = 0 /\ call.pt = Buffer(16, 0)) =>
    /\ ret = 0
    /\ ctbuf = FromSeq(<<3, 136, 218, 206, 96, 182, 163, 146,
                         243, 40, 194, 185, 113, 178, 254, 120>>)
    /\ tagbuf = FromSeq(<<171, 110, 71, 212, 44, 236, 19, 189,
                          245, 58, 103, 178, 18, 87, 189, 223>>)

(* What each thread's call returns when it runs alone on the context.     *)
SameAsAlone ==
  /\ (pc = "enc_ret" /\ call.fn = "encrypt") =>
        [ret |-> ret, ct |-> ctbuf, tag |-> tagbuf]
          = AES_GCM_encrypt(call, ctx.RoundKey, build.encAbove,
                            Buffer(call.pt_len, 0), ZeroBlock)
  /\ pc = "dec_ret" =>
        [ret |-> ret, pt |-> ptbuf]
          = AES_GCM_decrypt(call, ctx.RoundKey, build.decAbove, session.fill)
  /\ (other.pc = "ret" /\ other.call.fn = "encrypt") =>
        [ret |-> other.ret, ct |-> other.out, tag |-> other.tag]
          = AES_GCM_encrypt(other.call, ctx.RoundKey, build.encAbove,
                            Buffer(other.call.pt_len, 0), ZeroBlock)
  /\ (other.pc = "ret" /\ other.call.fn = "decrypt") =>
        [ret |-> other.ret, pt |-> other.out]
          = AES_GCM_decrypt(other.call, ctx.RoundKey, build.decAbove,
                            Pattern(other.call.ct_len, 165))

(* C18: no step of AES_GCM_encrypt or AES_GCM_decrypt, by either thread,   *)
(* writes a byte of the context, and with two threads sharing it every     *)
(* call, however its steps interleave with the other thread's, returns the *)
(* value and the outputs that the same call gives when run alone.          *)
C18_SharedReadOnlyContext ==
  /\ [][pc # "uninit" => ctx' = ctx]_vars
  /\ []SameAsAlone

(* Both threads have returned from calls that overlapped.                  *)
C18_Witness ==
  /\ pc = "dec_ret" /\ ret = 0 /\ call.ct_len > 0
  /\ other.pc = "ret" /\ other.ret = 0 /\ other.call.fn = "decrypt"
  /\ ctx # NoCtx

(* The number of counter blocks a buffer of the given length consumes.     *)
BlocksOf(length) == (length + AES_BLOCKLEN - 1) \div AES_BLOCKLEN

SamePrefix(C, D) == \A k \in 0..11 : C[k] = D[k]

(* C19: after AES_CTR_xcrypt_buffer returns, bytes 0..11 of the counter    *)
(* block are those of the block it was given and bytes 12..15, read as a   *)
(* big-endian 32-bit integer, are the tail given plus ceil(length/16)      *)
(* modulo 2^32; increment_counter_j0 adds 1 modulo 2^32 to bytes 12..15    *)
(* and never carries into byte 11.                                         *)
C19_CounterArithmetic ==
  /\ local.pc = "xcrypt_ret" =>
       /\ SamePrefix(local.counter, local.counter0)
       /\ local.counter = CounterPlus(local.counter0, BlocksOf(local.length))
  /\ local.pc = "increment_ret" =>
       /\ SamePrefix(local.counter, local.counter0)
       /\ local.counter = CounterPlus(local.counter0, 1)

(* The tail ff ff ff ff under a byte 11 of ff has wrapped, over more than  *)
(* one block.                                                              *)
C19_Witness ==
  /\ local.pc = "xcrypt_ret"
  /\ local.length > AES_BLOCKLEN
  /\ \A k \in 11..15 : local.counter0[k] = 255
  /\ local.counter[15] = BlocksOf(local.length) - 1

(* C20: constant_time_memcmp executes its loop body exactly num times      *)
(* wherever the buffers differ, accumulates the differences in one byte,   *)
(* and returns 0 if the first num bytes are equal and 1 otherwise.         *)
C20_ConstantTimeCompare ==
  /\ local.pc \in {"loop", "memcmp_ret"} =>
       /\ local.result \in 0..255
       /\ local.bodies = local.i
       /\ local.i <= local.num
  /\ local.pc = "memcmp_ret" =>
       /\ local.bodies = local.num
       /\ local.ret \in {0, 1}
       /\ local.ret = 0 <=> \A k \in 0..(local.num - 1) : local.a[k] = local.b[k]

(* The buffers differ in their first byte and all MaxCmpLen bytes were     *)
(* still compared.                                                         *)
C20_Witness ==
  /\ local.pc = "memcmp_ret"
  /\ local.num = MaxCmpLen
  /\ local.a[0] # local.b[0]
  /\ local.ret = 1

(* C21: every index at which KeyExpansion reads Rcon lies within the       *)
(* 11-entry table, in the range 1..10, under the Nk and Nr of the build.   *)
C21_RconIndexInBounds ==
  \A idx \in rconidx : idx \in 1..10 /\ idx < Len(Rcon)

(* C22: every byte encode_length stores, at each of its call sites in      *)
(* AES_GCM_encrypt and AES_GCM_decrypt, lands at an offset 0..15 of the    *)
(* 16-byte array the call site declared.                                   *)
C22_LengthStoresInBounds ==
  \A st \in stores : st[2] \in 0..(AES_BLOCKLEN - 1)

====
